---- MODULE Spec2Model ----
(***************************************************************************)
(* Model of src/app.py: the invoice generator (get_safe_value,             *)
(* format_invoice_date, generate_individual_invoice,                       *)
(* generate_mother_invoice, create_child_invoices_zip) and the upload      *)
(* handler index().                                                        *)
(*                                                                         *)
(* Strings are sequences of tokens.  A token is one character, or a run of *)
(* characters that no operation of the code looks inside ("INDIA",         *)
(* "invoice_", ".pdf", "nan", ...).  Cell values of the uploaded table are *)
(* records [k, n, s]: k = "nan" (missing cell), "num" (a number, n) or     *)
(* "str" (a string, s).  Numbers are integers.                             *)
(***************************************************************************)
EXTENDS Integers, Sequences, FiniteSets, TLC

VARIABLES
    today,       \* datetime.date.today(), fixed during a run
    unitCall,    \* the direct call of a function under examination
    unitRet,     \* what that call returned or raised
    pc,          \* where index() stands: "idle" between requests
    upload,      \* the POST request being handled
    df,          \* index(): the table, once loaded and cleaned
    i,           \* index(): the row the loop of line 448 comes to next
    outdir,      \* GENERATED_PDFS_FOLDER: file name -> "new" (written by the
                 \* request being handled, or the last one) or "old"
    flashes,     \* the messages flash() was given by this request
    generated_files,       \* index(): line 445
    child_invoice_files,   \* index(): line 446
    invoice_list_data,     \* index(): line 444, the invoice numbers
    archive,     \* the entries of child_invoices.zip as written
    mother,      \* what generate_mother_invoice returned to index()
    response     \* what index() returned

unitVars == <<unitCall, unitRet>>
cycleVars == <<pc, upload, df, i, outdir, flashes, generated_files,
               child_invoice_files, invoice_list_data, archive, mother,
               response>>
vars == <<today, unitCall, unitRet, pc, upload, df, i, outdir, flashes,
          generated_files, child_invoice_files, invoice_list_data, archive,
          mother, response>>

----------------------------------------------------------------------------
(* Values and strings *)

NaN == [k |-> "nan", n |-> 0, s |-> <<>>]
Num(x) == [k |-> "num", n |-> x, s |-> <<>>]
Str(t) == [k |-> "str", n |-> 0, s |-> t]

DigitTok == <<"0", "1", "2", "3", "4", "5", "6", "7", "8", "9">>
DigitSet == {DigitTok[j] : j \in 1..10}
DigitVal(c) == (CHOOSE j \in 1..10 : DigitTok[j] = c) - 1

RECURSIVE Digits(_)
\* str(n) for n >= 0
Digits(x) == IF x < 10 THEN <<DigitTok[x + 1]>>
             ELSE Digits(x \div 10) \o <<DigitTok[(x % 10) + 1]>>

\* str(n) of a Python int
IntStr(x) == IF x < 0 THEN <<"-">> \o Digits(0 - x) ELSE Digits(x)

AllDigits(t) == Len(t) > 0 /\ \A j \in 1..Len(t) : t[j] \in DigitSet

RECURSIVE DigitsVal(_)
DigitsVal(t) == IF Len(t) = 0 THEN 0
                ELSE 10 * DigitsVal(SubSeq(t, 1, Len(t) - 1)) + DigitVal(t[Len(t)])

\* int(s) of a string: an optional sign and digits; anything else is a
\* ValueError.  (Blanks and underscores are not in the model's alphabet.)
IntParses(t) == \/ AllDigits(t)
                \/ Len(t) > 1 /\ t[1] = "-" /\ AllDigits(Tail(t))
IntOfStr(t) == IF t[1] = "-" THEN 0 - DigitsVal(Tail(t)) ELSE DigitsVal(t)

----------------------------------------------------------------------------
(* format_invoice_date, src/app.py:27-41 *)

\* A date as strftime('%d %b %y') shows it: day, month (its abbreviation),
\* and the year's last two digits.
DateStr(y, m, d) == [dd |-> d, mon |-> m, yy |-> y % 100]

IsLeap(y) == (y % 4 = 0 /\ y % 100 # 0) \/ y % 400 = 0
DaysIn(y, m) == IF m = 2 THEN (IF IsLeap(y) THEN 29 ELSE 28)
                ELSE IF m \in {4, 6, 9, 11} THEN 30 ELSE 31

\* datetime.date.today().strftime('%d %b %y')
TodayStr == DateStr(today.y, today.m, today.d)

\* The regular expression strptime builds for '%m%d%Y':
\*   %m  1[0-2] | 0[1-9] | [1-9]
\*   %d  3[0-1] | [1-2]\d | 0[1-9] | [1-9]
\*   %Y  \d\d\d\d
\* tried in that order with backtracking; ml and dl are the lengths taken
\* by the month and the day.
MonthOk(t, ml) ==
    /\ Len(t) >= ml
    /\ \A j \in 1..ml : t[j] \in DigitSet
    /\ LET v == DigitsVal(SubSeq(t, 1, ml))
       IN IF ml = 2 THEN v \in 1..12 ELSE v \in 1..9

DayOk(t, ml, dl) ==
    /\ Len(t) >= ml + dl
    /\ \A j \in (ml + 1)..(ml + dl) : t[j] \in DigitSet
    /\ LET v == DigitsVal(SubSeq(t, ml + 1, ml + dl))
       IN IF dl = 2 THEN v \in 1..31 ELSE v \in 1..9

YearOk(t, ml, dl) ==
    /\ Len(t) >= ml + dl + 4
    /\ \A j \in (ml + dl + 1)..(ml + dl + 4) : t[j] \in DigitSet

SplitOk(t, ml, dl) == MonthOk(t, ml) /\ DayOk(t, ml, dl) /\ YearOk(t, ml, dl)

\* The alternatives in the order the regular expression tries them.
SplitOrder == << <<2, 2>>, <<2, 1>>, <<1, 2>>, <<1, 1>> >>

NoDate == [ok |-> FALSE, y |-> 0, m |-> 0, d |-> 0]

\* datetime.datetime.strptime(t, '%m%d%Y'): the date, or NoDate for a
\* ValueError (no match, unconverted data remains, or no such day in the
\* calendar).
Strptime(t) ==
    LET ok == {j \in 1..4 : SplitOk(t, SplitOrder[j][1], SplitOrder[j][2])}
    IN IF ok = {} THEN NoDate
       ELSE LET j  == CHOOSE a \in ok : \A b \in ok : a <= b
                ml == SplitOrder[j][1]
                dl == SplitOrder[j][2]
                m  == DigitsVal(SubSeq(t, 1, ml))
                d  == DigitsVal(SubSeq(t, ml + 1, ml + dl))
                y  == DigitsVal(SubSeq(t, ml + dl + 1, ml + dl + 4))
            IN IF ml + dl + 4 # Len(t) THEN NoDate
               ELSE IF y < 1 \/ d > DaysIn(y, m) THEN NoDate
               ELSE [ok |-> TRUE, y |-> y, m |-> m, d |-> d]

\* `not date_val or pd.isna(date_val)`
DateMissing(v) == \/ v.k = "nan"
                  \/ v.k = "num" /\ v.n = 0
                  \/ v.k = "str" /\ v.s = <<>>

format_invoice_date(date_val) ==
    IF DateMissing(date_val) THEN TodayStr
    ELSE IF date_val.k = "str" /\ ~IntParses(date_val.s) THEN TodayStr
    ELSE LET x        == IF date_val.k = "num" THEN date_val.n
                         ELSE IntOfStr(date_val.s)
             date_str == IntStr(x)
             padded   == IF Len(date_str) = 7 THEN <<"0">> \o date_str
                         ELSE date_str
             dt       == Strptime(padded)
         IN IF ~dt.ok THEN TodayStr
            ELSE DateStr(dt.y, dt.m, dt.d)

----------------------------------------------------------------------------
(* String operations of the code *)

Toks(t) == {t[j] : j \in 1..Len(t)}

RECURSIVE ReplaceAll(_, _, _)
\* str.replace(pat, rep): every occurrence, left to right, not overlapping.
ReplaceAll(t, pat, rep) ==
    IF Len(t) < Len(pat) THEN t
    ELSE IF SubSeq(t, 1, Len(pat)) = pat
         THEN rep \o ReplaceAll(SubSeq(t, Len(pat) + 1, Len(t)), pat, rep)
         ELSE <<t[1]>> \o ReplaceAll(Tail(t), pat, rep)

RECURSIVE SplitFirst(_, _)
\* t.split(sep)[0]: what precedes the first sep.
SplitFirst(t, sep) ==
    IF Len(t) = 0 \/ t[1] = sep THEN <<>>
    ELSE <<t[1]>> \o SplitFirst(Tail(t), sep)

\* str(v) and f"{v}" of a value that is not NaN.
TextOf(v) == IF v.k = "str" THEN v.s ELSE IntStr(v.n)

\* Python truth of a value that is not NaN.
Truthy(v) == IF v.k = "str" THEN v.s # <<>> ELSE v.n # 0

NA == <<"N", "/", "A">>
USD == <<"USD">>
PDF == <<".pdf">>
MotherName == <<"mother_invoice", ".pdf">>
ZipName == <<"child_invoices", ".zip">>

----------------------------------------------------------------------------
(* get_safe_value, src/app.py:17-25.  A row is a function from the table's *)
(* column names to cell values.                                            *)

get_safe_value(df_row, key, default) ==
    IF key \notin DOMAIN df_row THEN default
    ELSE IF df_row[key].k = "nan" THEN default
    ELSE df_row[key]

\* float(v): a number as it is, a string parsed.  Strings of the model
\* that float() accepts are the ones int() accepts.
FloatRaises(v) == v.k = "str" /\ ~IntParses(v.s)
FloatOf(v) == IF v.k = "num" THEN v.n ELSE IntOfStr(v.s)

\* v.split(...) and v.replace(...) exist for strings only.
StrMethodRaises(v) == v.k # "str"

\* reportlab's Paragraph(text) raises for a text that is not a string and
\* for markup it cannot parse (here: the token "</b>", an unbalanced tag).
BadMarkup(t) == "</b>" \in Toks(t)
ParagraphRaises(v) == v.k # "str" \/ BadMarkup(v.s)

----------------------------------------------------------------------------
(* generate_individual_invoice, src/app.py:44-193.  Of the plain text      *)
(* fields the model keeps the recipient's name and the commodity; the      *)
(* others (address lines, phone, HS code, ...) are read the same way.      *)

Empty == Str(<<>>)

\* The exception the data extraction (lines 49-84) raises, "none" if it
\* completes: the first failing statement in source order.
ExtractionExc(df_row) ==
    IF StrMethodRaises(get_safe_value(df_row, "Recipient_Country", Empty))
    THEN "AttributeError"
    ELSE IF StrMethodRaises(get_safe_value(df_row, "Country of Manufacture", Empty))
    THEN "AttributeError"
    ELSE IF FloatRaises(get_safe_value(df_row, "UNIT_Weight 1", Num(0)))
    THEN "ValueError"
    ELSE IF FloatRaises(get_safe_value(df_row, "QUANTITY 1", Num(0)))
    THEN "ValueError"
    ELSE IF FloatRaises(get_safe_value(df_row, "UNIT_VALUE 1", Num(0)))
    THEN "ValueError"
    ELSE IF FloatRaises(get_safe_value(df_row, "Invoice Value", Num(0)))
    THEN "ValueError"
    ELSE IF StrMethodRaises(get_safe_value(df_row, "CURRENCY", Str(USD)))
    THEN "AttributeError"
    ELSE IF FloatRaises(get_safe_value(df_row, "Freight_charges", Num(0)))
    THEN "ValueError"
    ELSE "none"

\* country_mfg, line 76
CountryMfg(v) == ReplaceAll(v.s, <<"-", "INDIA">>, <<>>)

\* The local variables the data extraction leaves, when it completes.
Extracted(df_row) ==
    LET total_value     == FloatOf(get_safe_value(df_row, "Invoice Value", Num(0)))
        freight_charges == FloatOf(get_safe_value(df_row, "Freight_charges", Num(0)))
    IN [invoice_number  |-> get_safe_value(df_row, "Invoice Number", Empty),
        awb_number      |-> get_safe_value(df_row, "House AWB No.", Str(NA)),
        invoice_date    |-> format_invoice_date(
                                get_safe_value(df_row, "Invoice Date", Empty)),
        recipient_name  |-> get_safe_value(df_row, "Recipient_Contact Name", Empty),
        recipient_country_code |->
            SplitFirst(get_safe_value(df_row, "Recipient_Country", Empty).s, "-"),
        description     |-> get_safe_value(df_row, "COMMODITY", Empty),
        country_mfg     |->
            CountryMfg(get_safe_value(df_row, "Country of Manufacture", Empty)),
        net_weight      |-> FloatOf(get_safe_value(df_row, "UNIT_Weight 1", Num(0))),
        quantity        |-> FloatOf(get_safe_value(df_row, "QUANTITY 1", Num(0))),
        unit_value      |-> FloatOf(get_safe_value(df_row, "UNIT_VALUE 1", Num(0))),
        total_value     |-> total_value,
        currency        |-> SplitFirst(get_safe_value(df_row, "CURRENCY", Str(USD)).s, "-"),
        freight_charges |-> freight_charges,
        total_invoice_amount |-> total_value + freight_charges]

\* base_filename, lines 90-93
BaseFilename(awb_number, invoice_number) ==
    IF Truthy(awb_number) /\ awb_number # Str(NA)
    THEN ReplaceAll(ReplaceAll(TextOf(awb_number), <<"/">>, <<"_">>),
                    <<"\\">>, <<"_">>)
    ELSE <<"invoice_">> \o TextOf(invoice_number)

\* The Paragraphs of lines 109-180 that hold data of the row.
ChildMarkupRaises(x) ==
    \/ BadMarkup(TextOf(x.awb_number))
    \/ BadMarkup(TextOf(x.recipient_name))
    \/ BadMarkup(x.recipient_country_code)
    \/ ParagraphRaises(x.description)
    \/ BadMarkup(x.country_mfg)
    \/ BadMarkup(x.currency)

\* doc.build opens output_dir/base_filename.pdf for writing; the output
\* directory holds no directories, so a "/" in the name leads nowhere.
OpenRaises(name) == "/" \in Toks(name)

NoExtract ==
    [invoice_number |-> Empty, awb_number |-> Empty,
     invoice_date |-> DateStr(0, 0, 0), recipient_name |-> Empty,
     recipient_country_code |-> <<>>, description |-> Empty,
     country_mfg |-> <<>>, net_weight |-> 0, quantity |-> 0, unit_value |-> 0,
     total_value |-> 0, currency |-> <<>>, freight_charges |-> 0,
     total_invoice_amount |-> 0]

\* The call's outcome: exc is the exception raised ("none": it returned
\* filename); extracted says whether the data extraction completed, and x
\* and base_filename are the locals it and lines 90-93 left; wrote says
\* whether the file output_dir/base_filename.pdf was written.
generate_individual_invoice(df_row) ==
    LET e == ExtractionExc(df_row)
    IN IF e # "none"
       THEN [exc |-> e, extracted |-> FALSE, x |-> NoExtract,
             base_filename |-> <<>>, wrote |-> FALSE, filename |-> <<>>]
       ELSE LET x    == Extracted(df_row)
                base == BaseFilename(x.awb_number, x.invoice_number)
                exc  == IF ChildMarkupRaises(x) THEN "ValueError"
                        ELSE IF OpenRaises(base \o PDF) THEN "FileNotFoundError"
                        ELSE "none"
            IN [exc |-> exc, extracted |-> TRUE, x |-> x,
                base_filename |-> base, wrote |-> exc = "none",
                filename |-> IF exc = "none" THEN base \o PDF ELSE <<>>]

----------------------------------------------------------------------------
(* generate_mother_invoice, src/app.py:273-349.  A table (DataFrame) is    *)
(* [columns, index, rows]: the column names, and for each row its index    *)
(* label and its cells.                                                    *)

\* The exception building one data row raises (lines 291-305), or "none".
MotherRowExc(row) ==
    IF BadMarkup(TextOf(get_safe_value(row, "COMMODITY", Empty))) THEN "ValueError"
    ELSE IF ParagraphRaises(get_safe_value(row, "Recipient_Contact Name", Empty))
    THEN "ValueError"
    ELSE IF BadMarkup(TextOf(get_safe_value(row, "Invoice Number", Empty)))
    THEN "ValueError"
    ELSE IF BadMarkup(TextOf(get_safe_value(row, "House AWB No.", Empty)))
    THEN "ValueError"
    ELSE IF FloatRaises(get_safe_value(row, "Total Shipment weight", Num(0)))
    THEN "ValueError"
    ELSE IF BadMarkup(TextOf(get_safe_value(row, "QUANTITY 1", Num(0))))
    THEN "ValueError"
    ELSE IF FloatRaises(get_safe_value(row, "UNIT_VALUE 1", Num(0)))
    THEN "ValueError"
    ELSE IF FloatRaises(get_safe_value(row, "Invoice Value", Num(0)))
    THEN "ValueError"
    ELSE "none"

\* One data row of the summary table (lines 292-305).
MotherRow(idx, row) ==
    [sno         |-> idx + 1,
     buyer       |-> get_safe_value(row, "Recipient_Contact Name", Empty).s,
     invoice_no  |-> TextOf(get_safe_value(row, "Invoice Number", Empty)),
     awb         |-> TextOf(get_safe_value(row, "House AWB No.", Empty)),
     description |-> TextOf(get_safe_value(row, "COMMODITY", Empty)),
     weight      |-> FloatOf(get_safe_value(row, "Total Shipment weight", Num(0))),
     qty         |-> TextOf(get_safe_value(row, "QUANTITY 1", Num(0))),
     unit_val    |-> FloatOf(get_safe_value(row, "UNIT_VALUE 1", Num(0))),
     total_val   |-> FloatOf(get_safe_value(row, "Invoice Value", Num(0)))]

\* df[col].astype(float) raises for a cell that is a string float() rejects.
AstypeFloatRaises(frame, col) ==
    \E j \in 1..Len(frame.rows) : FloatRaises(frame.rows[j][col])

RECURSIVE ColumnSum(_, _)
\* df[col].astype(float).sum(): NaN cells are skipped.
ColumnSum(rows, col) ==
    IF Len(rows) = 0 THEN 0
    ELSE (IF rows[1][col].k = "nan" THEN 0 ELSE FloatOf(rows[1][col]))
         + ColumnSum(Tail(rows), col)

\* The exception the footer's totals raise (lines 323-326), or "none".
MotherFooterExc(frame) ==
    IF "Invoice Value" \notin frame.columns THEN "KeyError"
    ELSE IF AstypeFloatRaises(frame, "Invoice Value") THEN "ValueError"
    ELSE IF "Total Shipment weight" \notin frame.columns THEN "KeyError"
    ELSE IF AstypeFloatRaises(frame, "Total Shipment weight") THEN "ValueError"
    ELSE IF Len(frame.rows) = 0 THEN "IndexError"
    ELSE IF StrMethodRaises(get_safe_value(frame.rows[1], "CURRENCY", Str(USD)))
    THEN "AttributeError"
    ELSE IF BadMarkup(SplitFirst(get_safe_value(frame.rows[1], "CURRENCY", Str(USD)).s, "-"))
    THEN "ValueError"
    ELSE "none"

MotherExc(frame) ==
    LET bad == {j \in 1..Len(frame.rows) : MotherRowExc(frame.rows[j]) # "none"}
    IN IF bad # {}
       THEN MotherRowExc(frame.rows[CHOOSE a \in bad : \A b \in bad : a <= b])
       ELSE MotherFooterExc(frame)

NoFooter == [total_packages |-> 0, total_value |-> 0, total_weight |-> 0,
             currency |-> <<>>]

\* The call's outcome: exc is the exception raised ("none": the document
\* mother_invoice.pdf was written, with these data rows and this footer).
generate_mother_invoice(frame) ==
    LET e == MotherExc(frame)
    IN IF e # "none"
       THEN [exc |-> e, wrote |-> FALSE, data |-> <<>>, footer |-> NoFooter]
       ELSE [exc |-> "none", wrote |-> TRUE,
             data |-> [j \in 1..Len(frame.rows) |-> MotherRow(frame.index[j], frame.rows[j])],
             footer |->
                [total_packages |-> Len(frame.rows),
                 total_value    |-> ColumnSum(frame.rows, "Invoice Value"),
                 total_weight   |-> ColumnSum(frame.rows, "Total Shipment weight"),
                 currency       |->
                    SplitFirst(get_safe_value(frame.rows[1], "CURRENCY", Str(USD)).s, "-")]]

----------------------------------------------------------------------------
(* create_child_invoices_zip, src/app.py:352-367.  on_disk is the set of   *)
(* file names in the output directory; the result is the archive's entries *)
(* in the order they were written.                                         *)

ZipAdmits(on_disk, invoice_file) ==
    invoice_file # MotherName /\ invoice_file \in on_disk

create_child_invoices_zip(on_disk, files) ==
    SelectSeq(files, LAMBDA f : ZipAdmits(on_disk, f))

----------------------------------------------------------------------------
(* Inputs *)

MaxRows == 2       \* rows of an uploaded table
MaxFiles == 3      \* names in a list given to create_child_invoices_zip

AllCols == {"Invoice Number", "House AWB No.", "Invoice Date",
            "Recipient_Contact Name", "Recipient_Country", "COMMODITY",
            "Country of Manufacture", "UNIT_Weight 1", "QUANTITY 1",
            "UNIT_VALUE 1", "Invoice Value", "CURRENCY", "Freight_charges",
            "Total Shipment weight"}

BaseRow ==
    [c \in AllCols |->
        CASE c = "Invoice Number"         -> Str(<<"I", "1">>)
          [] c = "House AWB No."          -> Str(<<"7", "7">>)
          [] c = "Invoice Date"           -> Num(5092025)
          [] c = "Recipient_Contact Name" -> Str(<<"Bob">>)
          [] c = "Recipient_Country"      -> Str(<<"US", "-", "United States">>)
          [] c = "COMMODITY"              -> Str(<<"Cloth">>)
          [] c = "Country of Manufacture" -> Str(<<"CHINA", "-", "INDIA">>)
          [] c = "UNIT_Weight 1"          -> Num(2)
          [] c = "QUANTITY 1"             -> Num(3)
          [] c = "UNIT_VALUE 1"           -> Num(4)
          [] c = "Invoice Value"          -> Num(12)
          [] c = "CURRENCY"               -> Str(<<"USD", "-", "US Dollar">>)
          [] c = "Freight_charges"        -> Num(1)
          [] c = "Total Shipment weight"  -> Num(6)]

NumberCells == {NaN, Num(0), Num(12), Str(<<"1", "2">>), Str(<<"a", "b">>),
                Str(<<>>)}

\* The cells a column takes in the rows given to the functions directly.
CellsOf(c) ==
    CASE c = "Invoice Number" ->
            {NaN, Str(<<"I", "/", "2">>), Str(<<"I", "\\", "3">>), Num(7)}
      [] c = "House AWB No." ->
            {NaN, Str(NA), Str(<<"nan">>), Str(<<"1", "/", "2">>),
             Str(<<"1", "\\", "2">>), Str(<<>>), Num(5), Num(0),
             Str(<<"mother_invoice">>), Str(<<"</b>">>)}
      [] c = "Invoice Date" ->
            {NaN, Num(592025), Num(12312025), Str(<<"a", "b">>)}
      [] c = "Recipient_Contact Name" -> {NaN, Num(3), Str(<<"</b>">>)}
      [] c = "Recipient_Country" -> {NaN, Str(<<"US">>), Num(1)}
      [] c = "COMMODITY" -> {NaN, Num(9), Str(<<"</b>">>)}
      [] c = "Country of Manufacture" ->
            {NaN, Str(<<"CHINA">>), Str(<<"INDIA">>), Num(2),
             Str(<<"X", "-", "INDIA", "-", "Y">>),
             Str(<<"-", "INDIA", "N">>),
             Str(<<"A", "-", "INDIA", "-", "INDIA">>),
             Str(<<"-", "INDIA">>), Str(<<"A", "-", "B">>)}
      [] c = "CURRENCY" -> {NaN, Str(<<"EUR">>), Num(4), Str(<<"</b>">>)}
      [] OTHER -> NumberCells

\* Rows for the direct calls: the base row with one cell changed, with the
\* AWB and the invoice number both changed, or with one column absent.
UnitRows ==
    UNION {{[BaseRow EXCEPT ![c] = v] : v \in CellsOf(c)} : c \in AllCols}
    \cup {[BaseRow EXCEPT !["House AWB No."] = a, !["Invoice Number"] = n] :
            a \in {NaN, Str(NA), Str(<<>>)}, n \in CellsOf("Invoice Number")}
    \cup {[c \in AllCols \ {a} |-> BaseRow[c]] : a \in AllCols}

Years == {0, 2024, 2025}

\* Values for format_invoice_date: numbers month*10^6 + day*10^4 + year (8
\* digits, 7 for a month below 10, fewer for month 0), the six-digit
\* numbers month*10^5 + day*10^4 + year, and others.
DateInputs ==
    {Num(m * 1000000 + d * 10000 + y) :
        m \in 0..13, d \in {0, 1, 9, 28, 29, 30, 31, 32}, y \in Years}
    \cup {Num(m * 100000 + d * 10000 + y) : m \in 1..9, d \in 0..9, y \in Years}
    \cup {NaN, Str(<<>>), Str(<<"a", "b">>), Num(0 - 5092025), Num(123120250),
          Num(0 - 509202), Num(99), Str(<<"0", "5", "0", "9", "2", "0", "2", "5">>),
          Str(<<"5", "0", "9", "2", "0", "2", "5">>), Str(<<"0">>)}

Todays == {[y |-> 2026, m |-> 11, d |-> 4], [y |-> 2025, m |-> 9, d |-> 5]}

\* Tables for generate_mother_invoice called directly.
MotherRows == {BaseRow,
               [BaseRow EXCEPT !["Invoice Value"] = NaN,
                               !["Total Shipment weight"] = Str(<<"1", "2">>)],
               [BaseRow EXCEPT !["Invoice Value"] = Str(<<"a", "b">>)],
               [BaseRow EXCEPT !["CURRENCY"] = Str(<<"EUR">>)],
               [BaseRow EXCEPT !["Recipient_Contact Name"] = Num(3)]}

SeqsUpTo(S, n) == UNION {[1..k -> S] : k \in 0..n}

Frame(rows) == [columns |-> AllCols,
                index   |-> [j \in 1..Len(rows) |-> j - 1],
                rows    |-> rows]

Restrict(row, cols) == [c \in cols |-> row[c]]

NoFrame == [columns |-> {}, index |-> <<>>, rows |-> <<>>]

RawFrame(cols, rows) ==
    [columns |-> cols,
     index   |-> [j \in 1..Len(rows) |-> j - 1],
     rows    |-> [j \in 1..Len(rows) |-> Restrict(rows[j], cols)]]

\* Tables without the invoice-value or the shipment-weight column.
MotherLacking == {AllCols \ {c} : c \in {"Invoice Value", "Total Shipment weight"}}

MotherTables ==
    {Frame(rows) : rows \in SeqsUpTo(MotherRows, MaxRows)}
    \cup {RawFrame(cols, rows) :
            cols \in MotherLacking, rows \in SeqsUpTo({BaseRow}, MaxRows)}

\* File names for create_child_invoices_zip called directly.
ZipNames == {<<"7", "7", ".pdf">>, <<"invoice_", "I", "1", ".pdf">>,
             <<"nan", ".pdf">>, MotherName}

----------------------------------------------------------------------------
(* The functions called directly: a behaviour of SpecUnit is one call of   *)
(* one function.                                                           *)

NoCall == [fn |-> "none"]

CallFormatDate ==
    \E v \in DateInputs :
        /\ unitCall = NoCall
        /\ unitCall' = [fn |-> "format_invoice_date", date_val |-> v]
        /\ unitRet' = format_invoice_date(v)
        /\ UNCHANGED <<today, cycleVars>>

CallGenerateIndividual ==
    \E row \in UnitRows :
        /\ unitCall = NoCall
        /\ unitCall' = [fn |-> "generate_individual_invoice", df_row |-> row]
        /\ unitRet' = generate_individual_invoice(row)
        /\ UNCHANGED <<today, cycleVars>>

CallGenerateMother ==
    \E t \in MotherTables :
        /\ unitCall = NoCall
        /\ unitCall' = [fn |-> "generate_mother_invoice", df |-> t]
        /\ unitRet' = generate_mother_invoice(t)
        /\ UNCHANGED <<today, cycleVars>>

CallCreateZip ==
    \E on_disk \in SUBSET ZipNames, files \in SeqsUpTo(ZipNames, MaxFiles) :
        /\ unitCall = NoCall
        /\ unitCall' = [fn |-> "create_child_invoices_zip",
                        on_disk |-> on_disk, child_invoice_files |-> files]
        /\ unitRet' = create_child_invoices_zip(on_disk, files)
        /\ UNCHANGED <<today, cycleVars>>

----------------------------------------------------------------------------
(* Uploads *)

\* Rows of the uploaded tables.
CycleRows ==
    {BaseRow,
     [BaseRow EXCEPT !["Invoice Number"] = Str(<<"I", "2">>)],
     [BaseRow EXCEPT !["Invoice Number"] = NaN],
     [BaseRow EXCEPT !["House AWB No."] = NaN,
                     !["Invoice Value"] = NaN,
                     !["Total Shipment weight"] = NaN],
     [BaseRow EXCEPT !["House AWB No."] = Str(<<"9", ".", "0", "/", "2">>),
                     !["Invoice Number"] = Num(7)],
     [BaseRow EXCEPT !["House AWB No."] = Str(NA),
                     !["Invoice Number"] = Str(<<"I", "/", "2">>)],
     [BaseRow EXCEPT !["Invoice Value"] = Str(<<"a", "b">>)],
     [BaseRow EXCEPT !["Recipient_Contact Name"] = Num(3)]}

\* Rows of the uploaded tables that lack a column.
FewRows == {BaseRow, [BaseRow EXCEPT !["Invoice Number"] = NaN]}

LackingSets == {AllCols \ {c} : c \in {"Invoice Number", "House AWB No.",
                                       "Invoice Value", "Total Shipment weight"}}

RawTables ==
    {RawFrame(AllCols, rows) : rows \in SeqsUpTo(CycleRows, MaxRows)}
    \cup {RawFrame(cols, rows) :
            cols \in LackingSets, rows \in SeqsUpTo(FewRows, MaxRows)}

\* A POST: without a file part, with an empty file name, with a file of
\* another type, with a file that cannot be read, with an Excel file that
\* has none of the wanted sheets, or with a file that loads as a table.
Uploads ==
    {[kind |-> k, table |-> NoFrame] :
        k \in {"nofilepart", "noname", "unsupported", "unreadable", "nosheet"}}
    \cup {[kind |-> "table", table |-> t] : t \in RawTables}

----------------------------------------------------------------------------
(* index(), src/app.py:389-493 *)

EmptyDir == [n \in {} |-> "new"]
Put(dir, name) == [n \in DOMAIN dir \cup {name} |->
                       IF n = name THEN "new" ELSE dir[n]]
Aged(dir) == [n \in DOMAIN dir |-> "old"]

Flash(msg, inv) == [msg |-> msg, inv |-> inv]

NoArchive == [exists |-> FALSE, entries |-> <<>>]
NoMother == [called |-> FALSE, exc |-> "none", wrote |-> FALSE, data |-> <<>>,
             footer |-> NoFooter]
NoResponse == [kind |-> "none", files |-> <<>>, has_zip |-> FALSE,
               mother_invoice_file |-> <<>>, invoice_list |-> <<>>]
Redirect == [NoResponse EXCEPT !.kind = "redirect"]
ServerError == [NoResponse EXCEPT !.kind = "error"]

\* sorted(names): the names with their multiplicities.
Sorted(names) ==
    [n \in {names[j] : j \in 1..Len(names)} |->
        Cardinality({j \in 1..Len(names) : names[j] = n})]

RECURSIVE Kept(_, _)
\* df.dropna(subset=['Invoice Number']): the positions of the rows kept.
Kept(rows, j) ==
    IF j > Len(rows) THEN <<>>
    ELSE (IF rows[j]["Invoice Number"].k = "nan" THEN <<>> ELSE <<j>>)
         \o Kept(rows, j + 1)

\* df[col].astype(str).replace('\.0', '', regex=True) of one cell: NaN
\* becomes "nan" (pandas before 3.0); a number its digits (a float column
\* gives "n.0", which the replacement turns into the same digits).
AsCleanStr(v) ==
    Str(ReplaceAll(IF v.k = "nan" THEN <<"nan">> ELSE TextOf(v),
                   <<".", "0">>, <<>>))

KeyCols == {"Invoice Number", "House AWB No."}

CleanRow(row) == [c \in DOMAIN row |->
                     IF c \in KeyCols THEN AsCleanStr(row[c]) ELSE row[c]]

\* Lines 437-441.
Cleaned(t) ==
    LET keep == Kept(t.rows, 1)
    IN [columns |-> t.columns,
        index   |-> [j \in 1..Len(keep) |-> t.index[keep[j]]],
        rows    |-> [j \in 1..Len(keep) |-> CleanRow(t.rows[keep[j]])]]

\* What lines 390-434 flash before they return a redirect, "" if they
\* go on.
Rejection(u) ==
    CASE u.kind = "nofilepart"  -> "No file part"
      [] u.kind = "noname"      -> "No selected file"
      [] u.kind = "unsupported" -> "Unsupported file type"
      [] u.kind = "unreadable"  -> "Error reading the file"
      [] u.kind = "nosheet"     -> "No sheets named 'Recipient and Invoice Data' found"
      [] u.kind = "table" /\ Len(u.table.rows) = 0
                                -> "Could not find any valid data"
      [] OTHER                  -> ""

\* Receive without the loop of lines 399-401: the files of the earlier
\* upload stay in the output directory.
ReceiveKeeping ==
    \E u \in Uploads :
        /\ pc = "idle"
        /\ upload' = u
        /\ outdir' = Aged(outdir)
        /\ generated_files' = <<>>
        /\ child_invoice_files' = <<>>
        /\ invoice_list_data' = <<>>
        /\ archive' = NoArchive
        /\ mother' = NoMother
        /\ i' = 1
        /\ IF Rejection(u) # ""
           THEN /\ flashes' = <<Flash(Rejection(u), <<>>)>>
                /\ response' = Redirect
                /\ df' = NoFrame
                /\ pc' = "idle"
           ELSE IF "Invoice Number" \notin u.table.columns
           THEN \* dropna raises KeyError, which nothing catches
                /\ flashes' = <<>>
                /\ response' = ServerError
                /\ df' = u.table
                /\ pc' = "idle"
           ELSE /\ flashes' = <<>>
                /\ response' = NoResponse
                /\ df' = Cleaned(u.table)
                /\ pc' = IF Len(Cleaned(u.table).rows) = 0 THEN "zip" ELSE "rows"
        /\ UNCHANGED <<today, unitVars>>

\* Lines 390-446: the request arrives, the output directory is cleared,
\* the file is loaded, validated and cleaned.
Receive ==
    \E u \in Uploads :
        /\ pc = "idle"
        /\ upload' = u
        /\ outdir' = IF u.kind \in {"nofilepart", "noname"}
                     THEN Aged(outdir) ELSE EmptyDir
        /\ generated_files' = <<>>
        /\ child_invoice_files' = <<>>
        /\ invoice_list_data' = <<>>
        /\ archive' = NoArchive
        /\ mother' = NoMother
        /\ i' = 1
        /\ IF Rejection(u) # ""
           THEN /\ flashes' = <<Flash(Rejection(u), <<>>)>>
                /\ response' = Redirect
                /\ df' = NoFrame
                /\ pc' = "idle"
           ELSE IF "Invoice Number" \notin u.table.columns
           THEN \* dropna raises KeyError, which nothing catches
                /\ flashes' = <<>>
                /\ response' = ServerError
                /\ df' = u.table
                /\ pc' = "idle"
           ELSE /\ flashes' = <<>>
                /\ response' = NoResponse
                /\ df' = Cleaned(u.table)
                /\ pc' = IF Len(Cleaned(u.table).rows) = 0 THEN "zip" ELSE "rows"
        /\ UNCHANGED <<today, unitVars>>

\* ProcessRow with the try of line 449 around the loop instead of inside
\* it: the first failing row ends the loop.
ProcessRowAborting ==
    /\ pc = "rows"
    /\ i <= Len(df.rows)
    /\ \E row \in {df.rows[i]} : \E r \in {generate_individual_invoice(row)} :
          IF r.exc = "none"
          THEN /\ outdir' = Put(outdir, r.filename)
               /\ generated_files' = Append(generated_files, r.filename)
               /\ child_invoice_files' = Append(child_invoice_files, r.filename)
               /\ invoice_list_data' =
                      Append(invoice_list_data,
                             get_safe_value(row, "Invoice Number", Empty).s)
               /\ UNCHANGED flashes
               /\ i' = i + 1
               /\ pc' = IF i = Len(df.rows) THEN "zip" ELSE "rows"
          ELSE /\ flashes' =
                      Append(flashes,
                             Flash("Could not generate invoice",
                                   TextOf(get_safe_value(row, "Invoice Number",
                                                         Str(<<"Unknown">>)))))
               /\ UNCHANGED <<outdir, generated_files, child_invoice_files,
                              invoice_list_data>>
               /\ i' = Len(df.rows) + 1
               /\ pc' = "zip"
    /\ UNCHANGED <<today, unitVars, upload, df, archive, mother, response>>

\* Lines 448-465: one turn of the loop over the rows.
ProcessRow ==
    /\ pc = "rows"
    /\ i <= Len(df.rows)
    /\ \E row \in {df.rows[i]} : \E r \in {generate_individual_invoice(row)} :
          IF r.exc = "none"
          THEN /\ outdir' = Put(outdir, r.filename)
               /\ generated_files' = Append(generated_files, r.filename)
               /\ child_invoice_files' = Append(child_invoice_files, r.filename)
               /\ invoice_list_data' =
                      Append(invoice_list_data,
                             get_safe_value(row, "Invoice Number", Empty).s)
               /\ UNCHANGED flashes
          ELSE /\ flashes' =
                      Append(flashes,
                             Flash("Could not generate invoice",
                                   TextOf(get_safe_value(row, "Invoice Number",
                                                         Str(<<"Unknown">>)))))
               /\ UNCHANGED <<outdir, generated_files, child_invoice_files,
                              invoice_list_data>>
    /\ i' = i + 1
    /\ pc' = IF i = Len(df.rows) THEN "zip" ELSE "rows"
    /\ UNCHANGED <<today, unitVars, upload, df, archive, mother, response>>

\* Lines 467-473.
Package ==
    /\ pc = "zip"
    /\ IF child_invoice_files # <<>>
       THEN /\ archive' = [exists |-> TRUE,
                           entries |-> create_child_invoices_zip(
                                           DOMAIN outdir, child_invoice_files)]
            /\ outdir' = Put(outdir, ZipName)
            /\ generated_files' = Append(generated_files, ZipName)
       ELSE UNCHANGED <<archive, outdir, generated_files>>
    /\ pc' = "mother"
    /\ UNCHANGED <<today, unitVars, upload, df, i, flashes,
                   child_invoice_files, invoice_list_data, mother, response>>

\* Lines 475-481.
Summarise ==
    /\ pc = "mother"
    /\ IF Len(df.rows) > 0
       THEN \E r \in {generate_mother_invoice(df)} :
               /\ mother' = [called |-> TRUE, exc |-> r.exc, wrote |-> r.wrote,
                             data |-> r.data, footer |-> r.footer]
               /\ IF r.exc = "none"
                  THEN /\ outdir' = Put(outdir, MotherName)
                       /\ generated_files' = Append(generated_files, MotherName)
                       /\ UNCHANGED flashes
                  ELSE /\ flashes' = Append(flashes,
                              Flash("Could not generate mother invoice", <<>>))
                       /\ UNCHANGED <<outdir, generated_files>>
       ELSE UNCHANGED <<mother, outdir, generated_files, flashes>>
    /\ pc' = "render"
    /\ UNCHANGED <<today, unitVars, upload, df, i, child_invoice_files,
                   invoice_list_data, archive, response>>

\* Lines 483-491.
Respond ==
    /\ pc = "render"
    /\ response' = [kind |-> "page",
                    files |-> Sorted(generated_files),
                    has_zip |-> archive.exists,
                    mother_invoice_file |->
                        IF mother.wrote THEN MotherName ELSE <<>>,
                    invoice_list |-> invoice_list_data]
    /\ pc' = "idle"
    /\ UNCHANGED <<today, unitVars, upload, df, i, outdir, flashes,
                   generated_files, child_invoice_files, invoice_list_data,
                   archive, mother>>

----------------------------------------------------------------------------
(* Specifications *)

Init ==
    /\ today \in Todays
    /\ unitCall = NoCall
    /\ unitRet = NoCall
    /\ pc = "idle"
    /\ upload = [kind |-> "none", table |-> NoFrame]
    /\ df = NoFrame
    /\ i = 1
    /\ outdir \in {EmptyDir, Aged(Put(EmptyDir, <<"7", "7", ".pdf">>))}
    /\ flashes = <<>>
    /\ generated_files = <<>>
    /\ child_invoice_files = <<>>
    /\ invoice_list_data = <<>>
    /\ archive = NoArchive
    /\ mother = NoMother
    /\ response = NoResponse

\* The upload handler, one request at a time.
Next == Receive \/ ProcessRow \/ Package \/ Summarise \/ Respond

Spec == Init /\ [][Next]_vars

\* The functions of the module called directly, on inputs of their own.
NextUnit == CallFormatDate \/ CallGenerateIndividual \/ CallGenerateMother
            \/ CallCreateZip

SpecUnit == Init /\ [][NextUnit]_vars

----------------------------------------------------------------------------
(* Properties.  Those of index() are stated of the specification Spec,     *)
(* those of the single functions of SpecUnit.                              *)

Count(seq, e) == Cardinality({j \in 1..Len(seq) : seq[j] = e})

\* index() has loaded and cleaned a table and is working on it, or has
\* returned the page made from it.
Working == pc \in {"rows", "zip", "mother", "render"}
Served == pc = "idle" /\ response.kind = "page"

\* The rows the loop of line 448 has dealt with.
Processed == IF pc = "rows" THEN i - 1 ELSE Len(df.rows)

RowFails(row) == generate_individual_invoice(row).exc # "none"

\* The name a warning gives a row: its invoice number, "Unknown" without.
WarnedName(row) ==
    IF "Invoice Number" \in DOMAIN row /\ row["Invoice Number"].k # "nan"
    THEN TextOf(row["Invoice Number"])
    ELSE <<"Unknown">>

RECURSIVE FilesOfGood(_, _)
\* The file names returned for the rows 1..n whose composition did not raise.
FilesOfGood(rows, n) ==
    IF n = 0 THEN <<>>
    ELSE FilesOfGood(rows, n - 1) \o
         (IF RowFails(rows[n]) THEN <<>>
          ELSE <<generate_individual_invoice(rows[n]).filename>>)

RECURSIVE NamesOfFailed(_, _)
\* The names of the rows 1..n whose composition raised.
NamesOfFailed(rows, n) ==
    IF n = 0 THEN <<>>
    ELSE NamesOfFailed(rows, n - 1) \o
         (IF RowFails(rows[n]) THEN <<WarnedName(rows[n])>> ELSE <<>>)

RowWarnings ==
    LET w == SelectSeq(flashes, LAMBDA f : f.msg = "Could not generate invoice")
    IN [j \in 1..Len(w) |-> w[j].inv]

\* C1: in an upload cycle, whichever rows fail composition, each failing
\* row gives exactly one warning that names its invoice number, each other
\* row has its PDF in the output directory and its file name recorded, the
\* loop reaches the last row, and as many child file names are recorded as
\* rows did not fail.
C1_RowFailuresIsolated ==
    (Working \/ Served) =>
        /\ child_invoice_files = FilesOfGood(df.rows, Processed)
        /\ RowWarnings = NamesOfFailed(df.rows, Processed)
        /\ \A j \in 1..Len(child_invoice_files) :
              /\ child_invoice_files[j] \in DOMAIN outdir
              /\ outdir[child_invoice_files[j]] = "new"
        /\ Len(child_invoice_files) =
              Cardinality({j \in 1..Processed : ~RowFails(df.rows[j])})
        /\ pc # "rows" => i = Len(df.rows) + 1

\* A cycle has ended in which a row failed and a later row did not.
C1_Witness ==
    /\ Served
    /\ \E j, k \in 1..Len(df.rows) :
          j < k /\ RowFails(df.rows[j]) /\ ~RowFails(df.rows[k])
    /\ Len(child_invoice_files) >= 1
    /\ Len(RowWarnings) >= 1

\* C2: every listed file name that is in the output directory when the
\* archive is made is in the archive exactly once, also when the list
\* repeats a name; mother_invoice.pdf is never in the archive.
C2_ArchiveHoldsEachOnce ==
    archive.exists =>
        /\ \A j \in 1..Len(child_invoice_files) :
              LET f == child_invoice_files[j]
              IN (f # MotherName /\ f \in DOMAIN outdir)
                     => Count(archive.entries, f) = 1
        /\ Count(archive.entries, MotherName) = 0

\* C3: in a cycle over a table that is not empty after cleaning, the
\* summary document is written and lists every row, whichever rows failed
\* their own composition.  Stated of the uploads that have every column
\* and in which a row did fail.
C3_SummaryListsAllRows ==
    (/\ pc = "render" \/ Served
     /\ Len(df.rows) > 0
     /\ df.columns = AllCols
     /\ \E j \in 1..Len(df.rows) : RowFails(df.rows[j])) =>
        /\ mother.wrote
        /\ MotherName \in DOMAIN outdir
        /\ Len(mother.data) = Len(df.rows)
        /\ \A j \in 1..Len(df.rows) :
              mother.data[j].invoice_no = TextOf(df.rows[j]["Invoice Number"])

\* The upload failed as a dataset: the file could not be read, had no
\* matching sheet, was empty on load, or was empty once the rows without
\* an invoice number were dropped.
DatasetFailure ==
    \/ upload.kind \in {"unreadable", "nosheet"}
    \/ upload.kind = "table" /\ Len(upload.table.rows) = 0
    \/ /\ upload.kind = "table"
       /\ "Invoice Number" \in upload.table.columns
       /\ Len(Cleaned(upload.table).rows) = 0

\* C4: a dataset-level failure ends the cycle with a message to the user
\* and with no per-row document, no summary document and no archive.
C4_DatasetFailureReported ==
    (pc = "idle" /\ response.kind # "none" /\ DatasetFailure) =>
        /\ Len(flashes) >= 1
        /\ DOMAIN outdir = {}
        /\ ~archive.exists
        /\ ~mother.wrote

\* The value the specification gives a numeric field: the cell's number,
\* the default 0 when the cell is missing or does not parse.
SafeNumber(row, key) ==
    IF key \notin DOMAIN row THEN 0
    ELSE IF row[key].k = "nan" \/ FloatRaises(row[key]) THEN 0
    ELSE FloatOf(row[key])

\* C5: the data extraction of generate_individual_invoice raises for no
\* row, and a numeric field that does not parse takes its default.
C5_ExtractionNeverRaises ==
    unitCall.fn = "generate_individual_invoice" =>
        /\ unitRet.extracted
        /\ unitRet.x.net_weight = SafeNumber(unitCall.df_row, "UNIT_Weight 1")
        /\ unitRet.x.quantity = SafeNumber(unitCall.df_row, "QUANTITY 1")
        /\ unitRet.x.unit_value = SafeNumber(unitCall.df_row, "UNIT_VALUE 1")
        /\ unitRet.x.total_value = SafeNumber(unitCall.df_row, "Invoice Value")
        /\ unitRet.x.freight_charges = SafeNumber(unitCall.df_row, "Freight_charges")

\* C6: the base file name generate_individual_invoice derives holds no "/"
\* and no "\", whether it comes from the AWB or from the invoice number.
C6_NoSeparatorInBaseName ==
    (unitCall.fn = "generate_individual_invoice" /\ unitRet.extracted) =>
        /\ "/" \notin Toks(unitRet.base_filename)
        /\ "\\" \notin Toks(unitRet.base_filename)

\* The name C7 gives the document of a row of the uploaded table.
C7_Name(raw) ==
    LET inv == AsCleanStr(raw["Invoice Number"]).s
    IN IF /\ "House AWB No." \in DOMAIN raw
          /\ raw["House AWB No."].k # "nan"
          /\ AsCleanStr(raw["House AWB No."]).s # NA
       THEN ReplaceAll(ReplaceAll(AsCleanStr(raw["House AWB No."]).s,
                                  <<"/">>, <<"_">>), <<"\\">>, <<"_">>) \o PDF
       ELSE <<"invoice_">> \o inv \o PDF

\* C7: the document of a row is named from its AWB, "/" and "\" replaced
\* by "_", when the AWB is present and is not "N/A", and
\* invoice_{invoiceNumber}.pdf otherwise, as for a row whose AWB cell is
\* missing in the uploaded table.
C7_DocumentNamedFromAwb ==
    (pc \in {"rows", "zip"} /\ i > 1 /\ ~RowFails(df.rows[i - 1])) =>
        child_invoice_files[Len(child_invoice_files)]
            = C7_Name(upload.table.rows[df.index[i - 1] + 1])

\* The date C8 gives a value: the one its eight digits (seven after a "0")
\* spell as month, day, year; today's otherwise.
C8_Date(v) ==
    IF DateMissing(v) \/ (v.k = "str" /\ ~IntParses(v.s)) THEN TodayStr
    ELSE LET t == IntStr(IF v.k = "num" THEN v.n ELSE IntOfStr(v.s))
             p == IF Len(t) = 7 THEN <<"0">> \o t ELSE t
         IN IF Len(p) # 8 \/ ~AllDigits(p) THEN TodayStr
            ELSE LET m == DigitsVal(SubSeq(p, 1, 2))
                     d == DigitsVal(SubSeq(p, 3, 4))
                     y == DigitsVal(SubSeq(p, 5, 8))
                 IN IF m \in 1..12 /\ y >= 1 /\ d >= 1 /\ d <= DaysIn(y, m)
                    THEN DateStr(y, m, d)
                    ELSE TodayStr

\* C8: format_invoice_date returns the date MMDDYYYY as "DD Mon YY" for an
\* integer string of 8 digits, or of 7 digits after one "0", that is a
\* valid date, and today's date for every other input.
C8_DateOrToday ==
    unitCall.fn = "format_invoice_date" => unitRet = C8_Date(unitCall.date_val)

\* The value C9 gives: the string without a trailing "-INDIA".
C9_Country(t) ==
    IF Len(t) >= 2 /\ SubSeq(t, Len(t) - 1, Len(t)) = <<"-", "INDIA">>
    THEN SubSeq(t, 1, Len(t) - 2)
    ELSE t

\* C9: the manufacture country is the raw value without "-INDIA" when that
\* is its suffix, and the raw value unchanged otherwise.
C9_SuffixOnly ==
    (/\ unitCall.fn = "generate_individual_invoice"
     /\ unitRet.extracted
     /\ "Country of Manufacture" \in DOMAIN unitCall.df_row
     /\ unitCall.df_row["Country of Manufacture"].k = "str") =>
        unitRet.x.country_mfg
            = C9_Country(unitCall.df_row["Country of Manufacture"].s)

\* C10: generate_mother_invoice given a table of no rows does not raise
\* and writes a summary with no data rows.
C10_EmptyTableTolerated ==
    (unitCall.fn = "generate_mother_invoice" /\ Len(unitCall.df.rows) = 0) =>
        /\ unitRet.exc = "none"
        /\ unitRet.wrote
        /\ unitRet.data = <<>>
        /\ unitRet.footer.total_packages = 0

RECURSIVE LineSum(_, _)
\* The sum over the rows of the number each shows in its own table line
\* (lines 299, 302): 0 for a row without the value.
LineSum(rows, key) ==
    IF Len(rows) = 0 THEN 0
    ELSE FloatOf(get_safe_value(rows[1], key, Num(0))) + LineSum(Tail(rows), key)

\* C11: the footer of generate_mother_invoice counts the rows, totals the
\* invoice values and the shipment weights of all rows, a row without the
\* value counting 0 as in its own table line, and shows the currency code
\* of the first row.  Stated of the tables that have a row and whose rows
\* all build their own table line.
C11_FooterTotals ==
    (/\ unitCall.fn = "generate_mother_invoice"
     /\ Len(unitCall.df.rows) > 0
     /\ \A j \in 1..Len(unitCall.df.rows) :
            MotherRowExc(unitCall.df.rows[j]) = "none") =>
        /\ unitRet.exc = "none"
        /\ unitRet.footer.total_packages = Len(unitCall.df.rows)
        /\ unitRet.footer.total_value = LineSum(unitCall.df.rows, "Invoice Value")
        /\ unitRet.footer.total_weight =
               LineSum(unitCall.df.rows, "Total Shipment weight")
        /\ unitRet.footer.currency =
               SplitFirst(TextOf(get_safe_value(unitCall.df.rows[1], "CURRENCY",
                                                Str(USD))), "-")

\* C12: an upload of a table that lacks some of the expected columns does
\* not fail: no exception leaves index(), and the cycle runs to its end,
\* where the page is returned.
C12_AbsentColumnsTolerated ==
    (/\ pc = "idle"
     /\ upload.kind = "table"
     /\ upload.table.columns # AllCols
     /\ Len(upload.table.rows) > 0) =>
        /\ response.kind # "error"
        /\ response.kind = "page"

\* The request in hand brought a file: index() went past line 397.
FileCycle == upload.kind \notin {"none", "nofilepart", "noname"}

\* C13: in every cycle, whatever came before it, the output directory is
\* emptied before a document is written: during the cycle and at its end,
\* however it ends, the directory holds the files this cycle generated and
\* no file of an earlier upload.
C13_OnlyThisCyclesArtifacts ==
    FileCycle =>
        /\ \A n \in DOMAIN outdir : outdir[n] = "new"
        /\ DOMAIN outdir = {generated_files[j] : j \in 1..Len(generated_files)}

\* A cycle in which a row failed has ended with its own documents, archive
\* and summary in the directory, and without the file the directory held
\* at the start.
C13_Witness ==
    /\ Served
    /\ FileCycle
    /\ \E j \in 1..Len(df.rows) : RowFails(df.rows[j])
    /\ Len(child_invoice_files) >= 1
    /\ {ZipName, MotherName} \subseteq DOMAIN outdir
    /\ <<"7", "7", ".pdf">> \notin DOMAIN outdir

====
